---- MODULE Spec2Model ----
(***************************************************************************)
(* Model of the payment-enrollment service of src/main.py: three POST      *)
(* endpoints (card, applepay, paypal) that validate a JSON body, hash the  *)
(* secret fields with bcrypt and insert one row into the endpoint's table. *)
(*                                                                         *)
(* Strings are sequences of character codes.  A request goes through the   *)
(* steps FastAPI takes for it: the body arrives (Receive), the get_db      *)
(* dependency opens a session (get_db_enter), the body is validated        *)
(* against the pydantic model (Validate), the endpoint function runs       *)
(* (card_payment, apple_pay_payment, paypal_payment) and the dependency's  *)
(* finally block closes the session (get_db_exit).  The endpoint functions *)
(* are "async def" bodies without any await, so each one runs to its       *)
(* return or raise as one step.                                            *)
(***************************************************************************)
EXTENDS Integers, Sequences, FiniteSets, TLC

\* ------------------------------------------------------------------ bounds
NumRequests == 2      \* requests in flight in one run
MaxLen == 1           \* longest string sent in a str field

Requests == 1..NumRequests

\* ------------------------------------------------------------------ values
\* An optional field that the body leaves out (phone_number: str = None).
None == <<-1>>

RECURSIVE StringsUpTo(_)
StringsUpTo(n) ==
  IF n = 0 THEN {<<>>}
  ELSE LET shorter == StringsUpTo(n - 1)
       IN shorter \cup {Append(s, 49) : s \in {t \in shorter : Len(t) = n - 1}}

\* Values a client sends in a str field: "", "1", "11", ...
StrInputs == StringsUpTo(MaxLen)
MonthInputs == {0, 1, 12, 13}
YearInputs == {2026}
\* "a@b.c", "a@B.c" and the malformed "ab.c"
EmailInputs == {<<97, 64, 98, 46, 99>>, <<97, 64, 66, 46, 99>>, <<97, 98, 46, 99>>}

NoRequest == [endpoint |-> "none"]
NoResponse == [status |-> 0, detail |-> ""]
NoException == ""

Endpoints == {"card", "applepay", "paypal"}

\* ------------------------------------------------------------------ state
VARIABLES
  pc,                  \* position of each request
  req,                 \* the JSON body of each request
  session,             \* the SessionLocal() of each request: none, open, closed
  closes,              \* number of db.close() calls made for each request
  resp,                \* the HTTP response of each request
  card_payments,       \* table card_payments
  apple_pay_payments,  \* table apple_pay_payments
  paypal_payments,     \* table paypal_payments
  rng,                 \* state of the entropy source behind bcrypt.gensalt
  hashCalls,           \* every hash_password call made so far
  dbCalls,             \* session.add / session.commit calls of each request
  log,                 \* lines written by logger
  stages,              \* pipeline stages each request has completed
  failure              \* exception text that ended the request ("" if none)

vars == <<pc, req, session, closes, resp, card_payments, apple_pay_payments,
          paypal_payments, rng, hashCalls, dbCalls, log, stages, failure>>

tables == <<card_payments, apple_pay_payments, paypal_payments>>

Init ==
  /\ pc = [r \in Requests |-> "idle"]
  /\ req = [r \in Requests |-> NoRequest]
  /\ session = [r \in Requests |-> "none"]
  /\ closes = [r \in Requests |-> 0]
  /\ resp = [r \in Requests |-> NoResponse]
  /\ card_payments = {}
  /\ apple_pay_payments = {}
  /\ paypal_payments = {}
  /\ rng = 1
  /\ hashCalls = {}
  /\ dbCalls = [r \in Requests |-> <<>>]
  /\ log = {}
  /\ stages = [r \in Requests |-> <<>>]
  /\ failure = [r \in Requests |-> NoException]

\* ------------------------------------------------------------------ bodies
PhoneInputs == {None, <<57>>}

CardBodies ==
  [endpoint : {"card"}, name : StrInputs, card_number : StrInputs,
   expires_month : MonthInputs, expires_year : YearInputs, cvv : StrInputs]

ApplePayBodies ==
  [endpoint : {"applepay"}, email : EmailInputs, phone_number : PhoneInputs,
   password : StrInputs]

PayPalBodies ==
  [endpoint : {"paypal"}, email : EmailInputs, password : StrInputs,
   phone_number : PhoneInputs]

\* ------------------------------------------------------------------ pydantic
\* A field annotated str takes any string, the empty one included.
IsStr(v) == v # None

IsInt(v) == v \in Int

\* EmailStr: one "@", a non-empty local part, a dotted domain with non-empty labels.
AtPositions(e) == {i \in 1..Len(e) : e[i] = 64}

EmailStr_valid(e) ==
  /\ e # None
  /\ Cardinality(AtPositions(e)) = 1
  /\ LET at == CHOOSE i \in AtPositions(e) : TRUE
         dots == {i \in (at + 1)..Len(e) : e[i] = 46}
     IN /\ at > 1
        /\ dots # {}
        /\ \A i \in dots : i > at + 1 /\ i < Len(e) /\ (i + 1) \notin dots

Lower(c) == IF c \in 65..90 THEN c + 32 ELSE c

\* EmailStr keeps the local part and lower-cases the domain.
EmailStr_normalize(e) ==
  IF AtPositions(e) = {} THEN e
  ELSE LET at == CHOOSE i \in AtPositions(e) : TRUE
       IN [i \in 1..Len(e) |-> IF i > at THEN Lower(e[i]) ELSE e[i]]

CardPaymentRequest(body) ==
  /\ IsStr(body.name)
  /\ IsStr(body.card_number)
  /\ IsInt(body.expires_month)
  /\ IsInt(body.expires_year)
  /\ IsStr(body.cvv)

\* Faulty variant: the email field is declared str instead of EmailStr.
ApplePayPaymentRequest_str(body) ==
  /\ IsStr(body.email)
  /\ IsStr(body.password)

ApplePayPaymentRequest(body) ==
  /\ EmailStr_valid(body.email)
  /\ IsStr(body.password)

PayPalPaymentRequest(body) ==
  /\ EmailStr_valid(body.email)
  /\ IsStr(body.password)

BodyValid(body) ==
  IF body.endpoint = "card" THEN CardPaymentRequest(body)
  ELSE IF body.endpoint = "applepay" THEN ApplePayPaymentRequest(body)
  ELSE PayPalPaymentRequest(body)

\* The model instance handed to the endpoint: EmailStr fields are normalized.
Parsed(body) ==
  IF body.endpoint = "card" THEN body
  ELSE [body EXCEPT !.email = EmailStr_normalize(body.email)]

ValidationDetail == "value is not a valid email address"

\* ------------------------------------------------------------------ bcrypt
\* Faulty variant: one salt drawn at import time and used by every call.
gensalt_once(entropy) == 0

\* bcrypt.gensalt(): the next draw of the entropy source.
gensalt(entropy) == entropy

RECURSIVE Sum(_)
Sum(s) == IF s = <<>> THEN 0 ELSE Head(s) + Sum(Tail(s))

\* bcrypt.hashpw: "$" salt digest, the digest a function of salt and password.
bcrypt_hashpw(password, salt) ==
  <<36, salt, (31 * salt + 7 * Len(password) + Sum(password)) % 251>>

\* Faulty variant: the secret is stored as submitted.
hash_password_plain(password, entropy) == password

hash_password(password, entropy) == bcrypt_hashpw(password, gensalt(entropy))

HashCall(r, field, input, entropy, faulted) ==
  [by |-> r, field |-> field, input |-> input, salt |-> gensalt(entropy),
   output |-> IF faulted THEN None ELSE hash_password(input, entropy)]

\* ------------------------------------------------------------------ datetime
DateError(year, month, day) ==
  IF year < 1 \/ year > 9999 THEN "ValueError: year is out of range"
  ELSE IF month < 1 \/ month > 12 THEN "ValueError: month must be in 1..12"
  ELSE IF day < 1 \/ day > 28 THEN "ValueError: day is out of range for month"
  ELSE NoException

date(year, month, day) == <<year, month, day>>

\* ------------------------------------------------------------------ database
HashingFault == "ValueError: bcrypt could not hash the password"
IntegrityError == "IntegrityError: duplicate key value violates unique constraint"
OperationalError == "OperationalError: server closed the connection unexpectedly"

ExceptionTexts ==
  {HashingFault, IntegrityError, OperationalError,
   "ValueError: year is out of range", "ValueError: month must be in 1..12",
   "ValueError: day is out of range for month"}

\* Faulty variant: the column is not a primary key.
pk_conflict_off(keys, key) == FALSE

\* The primary-key check of an INSERT.
pk_conflict(keys, key) == key \in keys

\* db.commit(): INSERT the pending row, then COMMIT.
CommitError(keys, key, connectionLost) ==
  IF connectionLost THEN OperationalError
  ELSE IF pk_conflict(keys, key) THEN IntegrityError
  ELSE NoException

\* Faulty variant: the INSERT of a failed commit stays in the table.
commit_rows_partial(table, row, exc) == table \cup {row}

\* Faulty variant: the handler answers without a commit having written the row.
commit_rows_lost(table, row, exc) == table

\* The table after db.commit() ended with exc.
commit_rows(table, row, exc) == IF exc = NoException THEN table \cup {row} ELSE table

\* Faulty variant: get_db without the finally block.
db_close_leak(s) == s

\* db.close()
db_close(s) == "closed"

\* ------------------------------------------------------------------ responses
SuccessMessage(endpoint) ==
  IF endpoint = "card" THEN "Card payment processed successfully"
  ELSE IF endpoint = "applepay" THEN "Apple Pay payment processed successfully"
  ELSE "PayPal payment processed successfully"

StaticDetail(endpoint) ==
  IF endpoint = "card" THEN "Error processing card payment"
  ELSE IF endpoint = "applepay" THEN "Error processing Apple Pay payment"
  ELSE "Error processing PayPal payment"

\* Faulty variant: detail=str(e)
ErrorDetail_leak(endpoint, exc) == exc

\* detail of the HTTPException raised in the except branch
ErrorDetail(endpoint, exc) == StaticDetail(endpoint)

\* ------------------------------------------------------------------ actions
Receive(r) ==
  /\ pc[r] = "idle"
  /\ \A q \in Requests : q < r => pc[q] # "idle"
  /\ \E body \in CardBodies \cup ApplePayBodies \cup PayPalBodies :
       req' = [req EXCEPT ![r] = body]
  /\ pc' = [pc EXCEPT ![r] = "received"]
  /\ UNCHANGED <<session, closes, resp, card_payments, apple_pay_payments,
                 paypal_payments, rng, hashCalls, dbCalls, log, stages, failure>>

\* get_db up to its yield
get_db_enter(r) ==
  /\ pc[r] = "received"
  /\ session' = [session EXCEPT ![r] = "open"]
  /\ pc' = [pc EXCEPT ![r] = "opened"]
  /\ UNCHANGED <<req, closes, resp, card_payments, apple_pay_payments,
                 paypal_payments, rng, hashCalls, dbCalls, log, stages, failure>>

\* The body is checked against the endpoint's pydantic model.
Validate(r) ==
  /\ pc[r] = "opened"
  /\ IF BodyValid(req[r])
     THEN /\ pc' = [pc EXCEPT ![r] = "validated"]
          /\ req' = [req EXCEPT ![r] = Parsed(req[r])]
          /\ stages' = [stages EXCEPT ![r] = <<"Validated">>]
          /\ UNCHANGED <<resp, failure>>
     ELSE /\ pc' = [pc EXCEPT ![r] = "responded"]
          /\ resp' = [resp EXCEPT ![r] = [status |-> 422, detail |-> ValidationDetail]]
          /\ failure' = [failure EXCEPT ![r] = "ValidationError"]
          /\ UNCHANGED <<req, stages>>
  /\ UNCHANGED <<session, closes, card_payments, apple_pay_payments,
                 paypal_payments, rng, hashCalls, dbCalls, log>>

\* The except branch: logger.error, then HTTPException(500, static detail).
Raise500(r, exc) ==
  /\ resp' = [resp EXCEPT ![r] =
                [status |-> 500, detail |-> ErrorDetail(req[r].endpoint, exc)]]
  /\ log' = log \cup {[by |-> r, level |-> "ERROR",
                       msg |-> StaticDetail(req[r].endpoint), exc |-> exc, who |-> <<>>]}
  /\ failure' = [failure EXCEPT ![r] = exc]
  /\ pc' = [pc EXCEPT ![r] = "responded"]

\* The end of the try branch: logger.info, then the confirmation.
Return200(r, who) ==
  /\ resp' = [resp EXCEPT ![r] =
                [status |-> 200, detail |-> SuccessMessage(req[r].endpoint)]]
  /\ log' = log \cup {[by |-> r, level |-> "INFO",
                       msg |-> SuccessMessage(req[r].endpoint), exc |-> NoException,
                       who |-> who]}
  /\ failure' = [failure EXCEPT ![r] = NoException]
  /\ pc' = [pc EXCEPT ![r] = "responded"]

card_payment(r) ==
  /\ pc[r] = "validated"
  /\ req[r].endpoint = "card"
  /\ \E fault \in {"none", "hash_card_number", "hash_cvv", "commit"} :
       LET payment == req[r]
           call1 == HashCall(r, "card_number", payment.card_number, rng,
                             fault = "hash_card_number")
           call2 == HashCall(r, "cvv", payment.cvv, rng + 1, fault = "hash_cvv")
           dateExc == DateError(payment.expires_year, payment.expires_month, 1)
           db_payment == [name |-> payment.name,
                          card_number |-> call1.output,
                          expires |-> date(payment.expires_year, payment.expires_month, 1),
                          cvv |-> call2.output,
                          by |-> r]
           commitExc == CommitError({row.card_number : row \in card_payments},
                                    db_payment.card_number, fault = "commit")
       IN
       IF fault = "hash_card_number"
       THEN /\ hashCalls' = hashCalls \cup {call1}
            /\ rng' = rng + 1
            /\ Raise500(r, HashingFault)
            /\ UNCHANGED <<card_payments, dbCalls, stages>>
       ELSE IF fault = "hash_cvv"
       THEN /\ hashCalls' = hashCalls \cup {call1, call2}
            /\ rng' = rng + 2
            /\ Raise500(r, HashingFault)
            /\ UNCHANGED <<card_payments, dbCalls, stages>>
       ELSE IF dateExc # NoException
       THEN /\ hashCalls' = hashCalls \cup {call1, call2}
            /\ rng' = rng + 2
            /\ stages' = [stages EXCEPT ![r] = Append(@, "Hashed")]
            /\ Raise500(r, dateExc)
            /\ UNCHANGED <<card_payments, dbCalls>>
       ELSE /\ hashCalls' = hashCalls \cup {call1, call2}
            /\ rng' = rng + 2
            /\ dbCalls' = [dbCalls EXCEPT ![r] = <<"add", "commit">>]
            /\ card_payments' = commit_rows(card_payments, db_payment, commitExc)
            /\ IF commitExc # NoException
               THEN /\ stages' = [stages EXCEPT ![r] = Append(@, "Hashed")]
                    /\ Raise500(r, commitExc)
               ELSE /\ stages' = [stages EXCEPT ![r] =
                                    @ \o <<"Hashed", "Persisted", "Acknowledged">>]
                    /\ Return200(r, payment.name)
  /\ UNCHANGED <<req, session, closes, apple_pay_payments, paypal_payments>>

apple_pay_payment(r) ==
  /\ pc[r] = "validated"
  /\ req[r].endpoint = "applepay"
  /\ \E fault \in {"none", "hash_password", "commit"} :
       LET payment == req[r]
           call == HashCall(r, "password", payment.password, rng,
                            fault = "hash_password")
           db_payment == [email |-> payment.email,
                          phone_number |-> payment.phone_number,
                          password_hash |-> call.output,
                          by |-> r]
           commitExc == CommitError({row.email : row \in apple_pay_payments},
                                    db_payment.email, fault = "commit")
       IN
       /\ hashCalls' = hashCalls \cup {call}
       /\ rng' = rng + 1
       /\ IF fault = "hash_password"
          THEN /\ Raise500(r, HashingFault)
               /\ UNCHANGED <<apple_pay_payments, dbCalls, stages>>
          ELSE /\ dbCalls' = [dbCalls EXCEPT ![r] = <<"add", "commit">>]
               /\ apple_pay_payments' = commit_rows(apple_pay_payments, db_payment, commitExc)
               /\ IF commitExc # NoException
                  THEN /\ stages' = [stages EXCEPT ![r] = Append(@, "Hashed")]
                       /\ Raise500(r, commitExc)
                  ELSE /\ stages' = [stages EXCEPT ![r] =
                                       @ \o <<"Hashed", "Persisted", "Acknowledged">>]
                       /\ Return200(r, payment.email)
  /\ UNCHANGED <<req, session, closes, card_payments, paypal_payments>>

paypal_payment(r) ==
  /\ pc[r] = "validated"
  /\ req[r].endpoint = "paypal"
  /\ \E fault \in {"none", "hash_password", "commit"} :
       LET payment == req[r]
           call == HashCall(r, "password", payment.password, rng,
                            fault = "hash_password")
           db_payment == [email |-> payment.email,
                          password_hash |-> call.output,
                          phone_number |-> payment.phone_number,
                          by |-> r]
           commitExc == CommitError({row.email : row \in paypal_payments},
                                    db_payment.email, fault = "commit")
       IN
       /\ hashCalls' = hashCalls \cup {call}
       /\ rng' = rng + 1
       /\ IF fault = "hash_password"
          THEN /\ Raise500(r, HashingFault)
               /\ UNCHANGED <<paypal_payments, dbCalls, stages>>
          ELSE /\ dbCalls' = [dbCalls EXCEPT ![r] = <<"add", "commit">>]
               /\ paypal_payments' = commit_rows(paypal_payments, db_payment, commitExc)
               /\ IF commitExc # NoException
                  THEN /\ stages' = [stages EXCEPT ![r] = Append(@, "Hashed")]
                       /\ Raise500(r, commitExc)
                  ELSE /\ stages' = [stages EXCEPT ![r] =
                                       @ \o <<"Hashed", "Persisted", "Acknowledged">>]
                       /\ Return200(r, payment.email)
  /\ UNCHANGED <<req, session, closes, card_payments, apple_pay_payments>>

\* get_db after its yield: the finally block
get_db_exit(r) ==
  /\ pc[r] = "responded"
  /\ session' = [session EXCEPT ![r] = db_close(@)]
  /\ closes' = [closes EXCEPT ![r] = @ + 1]
  /\ pc' = [pc EXCEPT ![r] = "closed"]
  /\ UNCHANGED <<req, resp, card_payments, apple_pay_payments, paypal_payments,
                 rng, hashCalls, dbCalls, log, stages, failure>>

Next ==
  \E r \in Requests :
    \/ Receive(r)
    \/ get_db_enter(r)
    \/ Validate(r)
    \/ card_payment(r)
    \/ apple_pay_payment(r)
    \/ paypal_payment(r)
    \/ get_db_exit(r)

Spec == Init /\ [][Next]_vars

\* Every request that has arrived is served to its end.
FairSpec == Spec /\ \A r \in Requests : WF_vars(get_db_enter(r) \/ Validate(r)
                     \/ card_payment(r) \/ apple_pay_payment(r)
                     \/ paypal_payment(r) \/ get_db_exit(r))

TypeOK ==
  /\ pc \in [Requests -> {"idle", "received", "opened", "validated", "responded", "closed"}]
  /\ session \in [Requests -> {"none", "open", "closed"}]
  /\ \A r \in Requests : resp[r].status \in {0, 200, 422, 500}

\* ------------------------------------------------------------------ vocabulary of the claims
Answered(r) == pc[r] \in {"responded", "closed"}

EmailEndpoints == {"applepay", "paypal"}

RowsBy(r) ==
  {row \in card_payments : row.by = r}
    \cup {row \in apple_pay_payments : row.by = r}
    \cup {row \in paypal_payments : row.by = r}

HashCallsBy(r) == {c \in hashCalls : c.by = r}

\* "ab.c": the address of EmailInputs without an "@"
MalformedEmails == {<<97, 98, 46, 99>>}

\* Every stored secret field, with the plaintext of the request that wrote it.
StoredSecrets ==
  {[table |-> "card_payments", by |-> row.by, field |-> "card_number",
    value |-> row.card_number, plain |-> req[row.by].card_number] : row \in card_payments}
    \cup
  {[table |-> "card_payments", by |-> row.by, field |-> "cvv",
    value |-> row.cvv, plain |-> req[row.by].cvv] : row \in card_payments}
    \cup
  {[table |-> "apple_pay_payments", by |-> row.by, field |-> "password_hash",
    value |-> row.password_hash, plain |-> req[row.by].password] : row \in apple_pay_payments}
    \cup
  {[table |-> "paypal_payments", by |-> row.by, field |-> "password_hash",
    value |-> row.password_hash, plain |-> req[row.by].password] : row \in paypal_payments}

Pipeline == <<"Validated", "Hashed", "Persisted", "Acknowledged">>

IsPrefix(s, t) == Len(s) <= Len(t) /\ \A i \in 1..Len(s) : s[i] = t[i]

EmailRows(endpoint) ==
  IF endpoint = "applepay" THEN apple_pay_payments ELSE paypal_payments

\* Addresses as stored: "a@b.c" (sent as "a@b.c" or as "a@B.c")
StoredEmails == {<<97, 64, 98, 46, 99>>}

\* The validated requests of one email endpoint that carry one address.
SameEmail(endpoint, email) ==
  {r \in Requests : /\ req[r].endpoint = endpoint
                    /\ pc[r] \in {"validated", "responded", "closed"}
                    /\ resp[r].status # 422
                    /\ req[r].email = email}

\* ------------------------------------------------------------------ C1
\* C1: a card request whose expires_month is outside 1..12 is answered 422,
\* and neither hash_password nor the session is used for it.
C1_MonthOutOfRangeIs422 ==
  \A r \in Requests :
    (req[r].endpoint = "card" /\ req[r].expires_month \notin 1..12) =>
      /\ HashCallsBy(r) = {}
      /\ dbCalls[r] = <<>>
      /\ (Answered(r) => resp[r].status = 422)

\* ------------------------------------------------------------------ C2
\* C2: an applepay or paypal request with a malformed email is rejected with
\* no add/commit on its session and no row written for it.
C2_MalformedEmailNotPersisted ==
  \A r \in Requests :
    (req[r].endpoint \in EmailEndpoints /\ req[r].email \in MalformedEmails) =>
      /\ dbCalls[r] = <<>>
      /\ RowsBy(r) = {}
      /\ HashCallsBy(r) = {}
      /\ (Answered(r) => resp[r].status = 422)

C2_Witness ==
  \E r \in Requests :
    /\ req[r].endpoint \in EmailEndpoints
    /\ req[r].email \in MalformedEmails
    /\ pc[r] = "closed"
    /\ resp[r].status = 422

C4_SessionReleased ==
  /\ \A r \in Requests : (session[r] = "open") ~> (session[r] = "closed")
  /\ [](\A r \in Requests :
          /\ closes[r] <= 1
          /\ (session[r] = "closed" <=> closes[r] = 1)
          /\ (pc[r] = "closed" => session[r] = "closed")
          /\ (session[r] = "open" <=> pc[r] \in {"opened", "validated", "responded"}))
  /\ []((\A r \in Requests : pc[r] \in {"idle", "closed"}) =>
          (\A r \in Requests : session[r] # "open"))

C4_Witness ==
  \E r, q \in Requests :
    /\ session[r] = "closed" /\ closes[r] = 1 /\ resp[r].status = 200
    /\ session[q] = "closed" /\ closes[q] = 1 /\ resp[q].status = 500
    /\ failure[q] \in {IntegrityError, OperationalError}

\* ------------------------------------------------------------------ C5
\* C5: an exception raised inside an endpoint function is logged and answered
\* 500 with the endpoint's static detail, never with the exception's text.
C5_ExceptionIsGeneric500 ==
  \A r \in Requests :
    failure[r] \in ExceptionTexts =>
      /\ resp[r].status = 500
      /\ resp[r].detail = StaticDetail(req[r].endpoint)
      /\ resp[r].detail \notin ExceptionTexts
      /\ \E line \in log : line.by = r /\ line.level = "ERROR" /\ line.exc = failure[r]

C5_Witness ==
  /\ \E r \in Requests : failure[r] = HashingFault /\ resp[r].status = 500
  /\ \E r \in Requests : failure[r] = "ValueError: month must be in 1..12"
                           /\ resp[r].status = 500

HasEmptyRequiredField(body) ==
  IF body.endpoint = "card"
  THEN body.name = <<>> \/ body.card_number = <<>> \/ body.cvv = <<>>
  ELSE body.endpoint \in EmailEndpoints /\ body.password = <<>>

C7_EmptyRequiredFieldIs422 ==
  \A r \in Requests :
    HasEmptyRequiredField(req[r]) =>
      /\ HashCallsBy(r) = {}
      /\ dbCalls[r] = <<>>
      /\ (Answered(r) => resp[r].status = 422)

\* ------------------------------------------------------------------ C8
\* C8: no two hash_password calls use the same salt, and two stored secret
\* fields written from the same plaintext hold different hashes.
C8_FreshSaltPerCall ==
  /\ \A c, d \in hashCalls : c # d => c.salt # d.salt
  /\ \A x, y \in StoredSecrets : (x # y /\ x.plain = y.plain) => x.value # y.value

C8_Witness ==
  \E x, y \in StoredSecrets :
    /\ x.by # y.by
    /\ x.plain = y.plain
    /\ x.plain # <<>>
    /\ x.value # y.value
    /\ \E c, d \in hashCalls : c.output = x.value /\ d.output = y.value /\ c.salt # d.salt

\* ------------------------------------------------------------------ C9
\* C9: no stored secret field equals the plaintext its request submitted.
C9_StoredSecretIsNotPlaintext ==
  \A x \in StoredSecrets : x.value # x.plain /\ x.value \in {c.output : c \in hashCalls}

C9_Witness ==
  /\ \E x \in StoredSecrets : x.table = "card_payments" /\ x.plain # <<>>
  /\ \E x \in StoredSecrets : x.table # "card_payments" /\ x.plain # <<>>

====
